---- MODULE Spec2Model ----
(***************************************************************************)
(* Model of backend/main.py of Email_Parser: the bootstrap that runs the   *)
(* ingestion pipeline when db/emails.db is absent (startup, main) and the  *)
(* /search route handler (search).  Several operating-system processes run *)
(* main() (or serve the `app` object from a WSGI server) against the same  *)
(* DB_PATH; HTTP requests are handled concurrently by a serving process.   *)
(***************************************************************************)
EXTENDS Integers, Sequences, FiniteSets, TLC

\* ------------------------------------------------------------------ bounds
MaxLen == 2          \* longest raw value of the q parameter
MaxRuns == 2         \* launches of one process slot

Procs == {"p1", "p2"}
Reqs == {"r1", "r2"}
Chars == {" ", "a"}
Whitespace == {" "}
Buffers == {"b1", "b2"}
Lists == {<<>>, <<2, 1>>}
EngineErrors == {"engine failure"}

\* ------------------------------------------------------------------ state
VARIABLES
    dbExists,     \* os.path.exists(DB_PATH)
    dbContent,    \* what the store holds: "none", "empty", "partial" or a threaded value
    pc,           \* per process: position in main()/startup()
    inCall,       \* per process: the pipeline step named by pc has been entered
    mode,         \* per process: "main" (python main.py) or "wsgi" (app served by gunicorn/uwsgi)
    runs,         \* per process: number of launches so far
    observed,     \* per process: what the os.path.exists check of this run saw
    buffer,       \* per process: local `buffer` of startup()
    threaded,     \* per process: local `threaded` of startup()
    raised,       \* per process: a pipeline step raised in this run
    log,          \* per process: call/return events of the pipeline steps in this run
    req           \* per request: the state of its search() invocation

procVars == <<pc, inCall, mode, runs, observed, buffer, threaded, raised, log>>
dbVars == <<dbExists, dbContent>>
vars == <<dbExists, dbContent, pc, inCall, mode, runs, observed, buffer, threaded, raised, log, req>>

\* --------------------------------------------------------------- pipeline
Steps == <<"create_database", "load_and_buffer", "compute_threads", "commit_buffer">>
StepNames == {Steps[i] : i \in 1..Len(Steps)}

StepIndex(s) == CHOOSE i \in 1..Len(Steps) : Steps[i] = s

\* statement that follows a pipeline step in startup()
AfterStep(s) == IF StepIndex(s) < Len(Steps) THEN Steps[StepIndex(s) + 1] ELSE "app_run"

\* variant: the pipeline is run whatever the check saw
AfterCheck_Always(exists) == "create_database"

\* the branch taken by `if not os.path.exists(DB_PATH)`
AfterCheck(exists) == IF ~exists THEN "create_database" ELSE "app_run"

\* variant: commit_buffer is handed the unthreaded buffer
StepArg_Unthreaded(p, s) ==
    CASE s = "create_database" -> "none"
      [] s = "load_and_buffer" -> "none"
      [] s = "compute_threads" -> buffer[p]
      [] s = "commit_buffer" -> buffer[p]

\* argument the step is called with
StepArg(p, s) ==
    CASE s = "create_database" -> "none"
      [] s = "load_and_buffer" -> "none"
      [] s = "compute_threads" -> buffer[p]
      [] s = "commit_buffer" -> threaded[p]

\* scripts.ingest_emails.compute_threads: deterministic and total
ComputeThreads(b) == IF b = "b1" THEN "t1" ELSE "t2"

Threadeds == {ComputeThreads(b) : b \in Buffers}

\* ----------------------------------------------------------------- search
RECURSIVE LStrip(_)
LStrip(s) == IF s # <<>> /\ Head(s) \in Whitespace THEN LStrip(Tail(s)) ELSE s

RECURSIVE RStrip(_)
RStrip(s) == IF s # <<>> /\ s[Len(s)] \in Whitespace THEN RStrip(SubSeq(s, 1, Len(s) - 1)) ELSE s

\* variant: only leading whitespace is removed
Strip_LeftOnly(s) == LStrip(s)

\* str.strip()
Strip(s) == RStrip(LStrip(s))

RECURSIVE SeqsUpTo(_)
SeqsUpTo(n) ==
    IF n = 0 THEN {<<>>}
    ELSE LET shorter == SeqsUpTo(n - 1)
         IN shorter \cup {Append(s, c) : s \in {t \in shorter : Len(t) = n - 1}, c \in Chars}

\* the request's query string: q missing, or q with some value
RawQueries == [given : {FALSE}, val : {<<>>}] \cup [given : {TRUE}, val : SeqsUpTo(MaxLen)]

\* request.args.get('q', '')
ArgsGet(raw) == IF raw.given THEN raw.val ELSE <<>>

\* what search_emails(q) may do: raise, or return a dict
EngineOutcomes ==
    [raised : {TRUE}, err : EngineErrors, keys : {{}}, lexical : {<<>>}, semantic : {<<>>}]
    \cup
    {o \in [raised : {FALSE}, err : {""}, keys : SUBSET {"lexical", "semantic"},
            lexical : Lists, semantic : Lists] :
        /\ "lexical" \notin o.keys => o.lexical = <<>>
        /\ "semantic" \notin o.keys => o.semantic = <<>>}

NoOutcome == [raised |-> FALSE, err |-> "", keys |-> {}, lexical |-> <<>>, semantic |-> <<>>]

NoResponse == [status |-> 0, keys |-> {}, error |-> "", query |-> <<>>, lexical |-> <<>>, semantic |-> <<>>]

BadRequest ==
    [NoResponse EXCEPT !.status = 400, !.keys = {"error"},
                       !.error = "Missing required \"q\" parameter."]

ServerError(msg) == [NoResponse EXCEPT !.status = 500, !.keys = {"error"}, !.error = msg]

\* the dict passed to jsonify on success
SuccessBody(q, o) ==
    [NoResponse EXCEPT !.status = 200, !.keys = {"query", "semantic"},
                       !.query = q, !.semantic = o.semantic]

\* variant: a missing 'semantic' entry is read as an empty list
BuildResponse_Lenient(q, o) ==
    IF o.raised THEN ServerError(o.err) ELSE SuccessBody(q, o)

\* the try block of search() and its except clause
BuildResponse(q, o) ==
    IF o.raised THEN ServerError(o.err)
    ELSE IF "semantic" \notin o.keys THEN ServerError("'semantic'")
    ELSE SuccessBody(q, o)

\* `if not q`
Rejected(q) == q = <<>>

\* st: "none", "engine" (inside search_emails) or "done"; proc: the serving process;
\* calls: the arguments search_emails was invoked with; out: what search_emails did;
\* prev: status of the response this server gave just before on this connection
NoRequest == [st |-> "none", proc |-> "none", raw |-> [given |-> FALSE, val |-> <<>>],
              q |-> <<>>, calls |-> <<>>, out |-> NoOutcome, resp |-> NoResponse, prev |-> 0]

\* -------------------------------------------------------------- processes
ResetRun(p, m, at) ==
    /\ pc' = [pc EXCEPT ![p] = at]
    /\ mode' = [mode EXCEPT ![p] = m]
    /\ runs' = [runs EXCEPT ![p] = @ + 1]
    /\ inCall' = [inCall EXCEPT ![p] = FALSE]
    /\ observed' = [observed EXCEPT ![p] = "unset"]
    /\ buffer' = [buffer EXCEPT ![p] = "none"]
    /\ threaded' = [threaded EXCEPT ![p] = "none"]
    /\ raised' = [raised EXCEPT ![p] = FALSE]
    /\ log' = [log EXCEPT ![p] = <<>>]
    /\ req' = [r \in Reqs |-> IF req[r].proc = p THEN NoRequest ELSE req[r]]

\* python main.py: __main__ calls main(), which calls startup()
Launch(p) ==
    /\ pc[p] \in {"idle", "crashed", "exited"}
    /\ runs[p] < MaxRuns
    /\ ResetRun(p, "main", "startup")
    /\ UNCHANGED dbVars

\* the app object imported by a WSGI server: main() is not run
LaunchWsgi(p) ==
    /\ pc[p] \in {"idle", "crashed", "exited"}
    /\ runs[p] < MaxRuns
    /\ ResetRun(p, "wsgi", "serving")
    /\ UNCHANGED dbVars

\* startup(): the existence check and the branch
StartupCheck(p) ==
    /\ pc[p] = "startup"
    /\ observed' = [observed EXCEPT ![p] = IF dbExists THEN "present" ELSE "absent"]
    /\ pc' = [pc EXCEPT ![p] = AfterCheck(dbExists)]
    /\ UNCHANGED <<dbVars, inCall, mode, runs, buffer, threaded, raised, log, req>>

\* startup(): a pipeline step is entered
CallStep(p) ==
    /\ pc[p] \in StepNames
    /\ ~inCall[p]
    /\ inCall' = [inCall EXCEPT ![p] = TRUE]
    /\ log' = [log EXCEPT ![p] = Append(@, <<"call", pc[p], StepArg(p, pc[p])>>)]
    /\ UNCHANGED <<dbVars, pc, mode, runs, observed, buffer, threaded, raised, req>>

Returned(p, s, val) ==
    /\ pc' = [pc EXCEPT ![p] = AfterStep(s)]
    /\ inCall' = [inCall EXCEPT ![p] = FALSE]
    /\ log' = [log EXCEPT ![p] = Append(@, <<"ret", s, val>>)]

create_database(p) ==
    /\ pc[p] = "create_database" /\ inCall[p]
    /\ dbExists' = TRUE
    /\ dbContent' \in (IF dbExists THEN {dbContent, "empty"} ELSE {"empty"})
    /\ Returned(p, "create_database", "none")
    /\ UNCHANGED <<mode, runs, observed, buffer, threaded, raised, req>>

load_and_buffer(p) ==
    /\ pc[p] = "load_and_buffer" /\ inCall[p]
    /\ \E b \in Buffers :
          /\ buffer' = [buffer EXCEPT ![p] = b]
          /\ Returned(p, "load_and_buffer", b)
    /\ UNCHANGED <<dbVars, mode, runs, observed, threaded, raised, req>>

compute_threads(p) ==
    /\ pc[p] = "compute_threads" /\ inCall[p]
    /\ LET arg == log[p][Len(log[p])][3]
       IN /\ threaded' = [threaded EXCEPT ![p] = ComputeThreads(arg)]
          /\ Returned(p, "compute_threads", ComputeThreads(arg))
    /\ UNCHANGED <<dbVars, mode, runs, observed, buffer, raised, req>>

commit_buffer(p) ==
    /\ pc[p] = "commit_buffer" /\ inCall[p]
    /\ dbExists' = TRUE
    /\ dbContent' = log[p][Len(log[p])][3]
    /\ Returned(p, "commit_buffer", "none")
    /\ UNCHANGED <<mode, runs, observed, buffer, threaded, raised, req>>

\* what a step that raises may leave behind in the store
RaiseEffects(s) ==
    CASE s = "create_database" ->
            {<<dbExists, dbContent>>} \cup (IF dbExists THEN {} ELSE {<<TRUE, "empty">>})
      [] s = "commit_buffer" ->
            {<<dbExists, dbContent>>, <<TRUE, "partial">>}
      [] OTHER -> {<<dbExists, dbContent>>}

\* variant: startup() swallows the exception and returns
AfterRaise_Swallowed(p) == "app_run"

\* where an exception raised inside startup() ends up: nothing catches it
AfterRaise(p) == "crashed"

\* variant: startup() removes the store when a step raises
StoreAfterRaise_Deleted(eff) == <<FALSE, "none">>

\* what startup() does to the store the raising step left behind: it has no
\* except or finally clause, the store stays as it is
StoreAfterRaise(eff) == eff

\* a pipeline step raises
RaiseStep(p) ==
    /\ pc[p] \in StepNames /\ inCall[p]
    /\ \E eff \in RaiseEffects(pc[p]) :
          /\ dbExists' = StoreAfterRaise(eff)[1]
          /\ dbContent' = StoreAfterRaise(eff)[2]
    /\ pc' = [pc EXCEPT ![p] = AfterRaise(p)]
    /\ raised' = [raised EXCEPT ![p] = TRUE]
    /\ inCall' = [inCall EXCEPT ![p] = FALSE]
    /\ log' = [log EXCEPT ![p] = Append(@, <<"raise", pc[p], "none">>)]
    /\ UNCHANGED <<mode, runs, observed, buffer, threaded, req>>

\* variant: the server is launched without waiting for startup()
CanRun_Early(p) == pc[p] \in {"startup", "app_run"}

\* main(): the statement app.run is reached once startup() has returned
CanRun(p) == pc[p] = "app_run"

AppRun(p) ==
    /\ CanRun(p)
    /\ pc' = [pc EXCEPT ![p] = "serving"]
    /\ UNCHANGED <<dbVars, inCall, mode, runs, observed, buffer, threaded, raised, log, req>>

\* the server is stopped; requests in flight are finished first
Shutdown(p) ==
    /\ pc[p] = "serving"
    /\ \A r \in Reqs : ~(req[r].st = "engine" /\ req[r].proc = p)
    /\ pc' = [pc EXCEPT ![p] = "exited"]
    /\ UNCHANGED <<dbVars, inCall, mode, runs, observed, buffer, threaded, raised, log, req>>

\* the store is removed from outside the program
ExternalDelete ==
    /\ dbExists
    /\ dbExists' = FALSE
    /\ dbContent' = "none"
    /\ UNCHANGED <<procVars, req>>

\* variant: the handler creates the store when it is missing
SearchStoreEffect_Builds ==
    /\ dbExists' = TRUE
    /\ dbContent' = IF dbExists THEN dbContent ELSE "empty"

\* what search() does to the store: no statement of it touches DB_PATH
SearchStoreEffect == UNCHANGED dbVars

\* search(): read q, reject it or call search_emails(q)
SearchBegin(r, p, raw) ==
    /\ pc[p] = "serving"
    /\ req[r].st \in {"none", "done"}
    /\ LET q == Strip(ArgsGet(raw))
           prev == IF req[r].proc = p THEN req[r].resp.status ELSE 0
       IN req' = [req EXCEPT ![r] =
                    IF Rejected(q)
                    THEN [NoRequest EXCEPT !.st = "done", !.proc = p, !.raw = raw, !.q = q,
                                           !.prev = prev, !.resp = BadRequest]
                    ELSE [NoRequest EXCEPT !.st = "engine", !.proc = p, !.raw = raw, !.q = q,
                                           !.prev = prev, !.calls = <<q>>]]
    /\ SearchStoreEffect
    /\ UNCHANGED procVars

\* variant: the exception escapes search() and takes the server down
AfterHandlerError_Escapes(p) == "crashed"

\* what an exception inside the try block does to the serving process
AfterHandlerError(p) == pc[p]

\* search(): search_emails(q) returns or raises, and the response is built
SearchEnd(r, o) ==
    /\ req[r].st = "engine"
    /\ req' = [req EXCEPT ![r].st = "done", ![r].out = o,
                           ![r].resp = BuildResponse(req[r].q, o)]
    /\ pc' = [pc EXCEPT ![req[r].proc] =
                 IF BuildResponse(req[r].q, o).status = 500 THEN AfterHandlerError(req[r].proc) ELSE @]
    /\ SearchStoreEffect
    /\ UNCHANGED <<inCall, mode, runs, observed, buffer, threaded, raised, log>>

\* ------------------------------------------------------------ specification
Init ==
    /\ dbExists \in BOOLEAN
    /\ dbContent = IF dbExists THEN "t1" ELSE "none"
    /\ pc = [p \in Procs |-> "idle"]
    /\ inCall = [p \in Procs |-> FALSE]
    /\ mode = [p \in Procs |-> "main"]
    /\ runs = [p \in Procs |-> 0]
    /\ observed = [p \in Procs |-> "unset"]
    /\ buffer = [p \in Procs |-> "none"]
    /\ threaded = [p \in Procs |-> "none"]
    /\ raised = [p \in Procs |-> FALSE]
    /\ log = [p \in Procs |-> <<>>]
    /\ req = [r \in Reqs |-> NoRequest]

ProcNext(p) ==
    \/ Launch(p)
    \/ LaunchWsgi(p)
    \/ StartupCheck(p)
    \/ CallStep(p)
    \/ create_database(p)
    \/ load_and_buffer(p)
    \/ compute_threads(p)
    \/ commit_buffer(p)
    \/ RaiseStep(p)
    \/ AppRun(p)
    \/ Shutdown(p)

\* bootstrap of concurrently launched processes, no requests
NextBoot ==
    \/ \E p \in Procs : ProcNext(p)
    \/ ExternalDelete

\* one process and one request at a time, every raw query
NextServe ==
    \/ ProcNext("p1")
    \/ ExternalDelete
    \/ \E raw \in RawQueries : SearchBegin("r1", "p1", raw)
    \/ \E o \in EngineOutcomes : SearchEnd("r1", o)

\* raw queries of at most one character
ShortQueries == {raw \in RawQueries : Len(raw.val) <= 1}

\* one process handling two requests concurrently, short raw queries
NextConc ==
    \/ ProcNext("p1")
    \/ ExternalDelete
    \/ \E r \in Reqs, raw \in ShortQueries : SearchBegin(r, "p1", raw)
    \/ \E r \in Reqs, o \in EngineOutcomes : SearchEnd(r, o)

Spec == Init /\ [][NextBoot]_vars

SpecConc == Init /\ [][NextConc]_vars

SpecServe == Init /\ [][NextServe]_vars

TypeOK ==
    /\ dbExists \in BOOLEAN
    /\ dbContent \in {"none", "empty", "partial"} \cup Threadeds
    /\ pc \in [Procs -> {"idle", "startup", "app_run", "serving", "exited", "crashed"} \cup StepNames]
    /\ \A r \in Reqs : req[r].st \in {"none", "engine", "done"}
\* ------------------------------------------------------------------ helpers
Invoked(p, s) == \E i \in 1..Len(log[p]) : log[p][i][1] = "call" /\ log[p][i][2] = s

ReturnedFrom(p, s) == \E i \in 1..Len(log[p]) : log[p][i][1] = "ret" /\ log[p][i][2] = s

StartupReturned(p) == observed[p] = "present" \/ ReturnedFrom(p, "commit_buffer")

Blank(raw) == ~raw.given \/ \A i \in 1..Len(raw.val) : raw.val[i] \in Whitespace

\* the event log of a complete, failure-free pipeline run with buffer b and threads t
FullRun(b, t) ==
    << <<"call", "create_database", "none">>, <<"ret", "create_database", "none">>,
       <<"call", "load_and_buffer", "none">>, <<"ret", "load_and_buffer", b>>,
       <<"call", "compute_threads", b>>,      <<"ret", "compute_threads", t>>,
       <<"call", "commit_buffer", t>>,        <<"ret", "commit_buffer", "none">> >>

\* --------------------------------------------------------------------- C1
\* C1: a startup() that finds the store present invokes none of the pipeline
\* steps and leaves the store as it is; pipeline steps are only ever invoked
\* in a run whose existence check saw the store absent.
C1_RerunIsNoOp ==
    /\ [](\A p \in Procs :
            /\ observed[p] = "present" => log[p] = <<>> /\ pc[p] \notin StepNames
            /\ log[p] # <<>> => observed[p] = "absent")
    /\ [][\A p \in Procs :
            (pc[p] = "startup" /\ pc'[p] # "startup" /\ dbExists) =>
                /\ pc'[p] = "app_run"
                /\ log'[p] = <<>>
                /\ dbExists' = dbExists /\ dbContent' = dbContent]_vars

\* a second launch of a process skipped the pipeline on a populated store
C1_Witness ==
    \E p \in Procs :
        /\ runs[p] >= 2 /\ mode[p] = "main"
        /\ observed[p] = "present" /\ pc[p] = "app_run"
        /\ dbExists /\ dbContent \in Threadeds

\* --------------------------------------------------------------------- C2
\* C2: a startup() that saw the store absent and returned has invoked
\* create_database, load_and_buffer, compute_threads, commit_buffer once each
\* in that order, each entered only after the previous one returned,
\* compute_threads with load_and_buffer's result and commit_buffer with
\* compute_threads' result; while it runs its events are a prefix of that.
C2_PipelineOrder ==
    \A p \in Procs :
        /\ (observed[p] = "absent" /\ pc[p] \in {"app_run", "serving", "exited"}) =>
              \E b \in Buffers, t \in Threadeds : log[p] = FullRun(b, t)
        /\ (pc[p] \in StepNames) =>
              \E b \in Buffers, t \in Threadeds :
                  /\ Len(log[p]) = 2 * (StepIndex(pc[p]) - 1) + (IF inCall[p] THEN 1 ELSE 0)
                  /\ log[p] = SubSeq(FullRun(b, t), 1, Len(log[p]))

\* a pipeline run completed and startup() returned
C2_Witness ==
    \E p \in Procs :
        /\ observed[p] = "absent" /\ pc[p] = "app_run"
        /\ Len(log[p]) = 8 /\ dbExists /\ dbContent = log[p][7][3]

\* --------------------------------------------------------------------- C3
\* C3: two processes are never both past the existence check, running the
\* pipeline, with create_database invoked by both.
C3_SingleCreator ==
    \A p1 \in Procs, p2 \in Procs :
        p1 # p2 =>
            ~(/\ pc[p1] \in StepNames /\ Invoked(p1, "create_database")
              /\ pc[p2] \in StepNames /\ Invoked(p2, "create_database"))

\* --------------------------------------------------------------------- C4
\* C4: a process started through main() handles a /search request only after
\* its startup() has returned, i.e. commit_buffer returned or the store was
\* found present.
C4_IngestBeforeServe ==
    /\ \A r \in Reqs :
          (req[r].st # "none" /\ mode[req[r].proc] = "main") => StartupReturned(req[r].proc)
    /\ \A p \in Procs :
          (mode[p] = "main" /\ pc[p] = "serving") => StartupReturned(p)

\* a query reached search_emails in a process that ingested first
C4_Witness ==
    \E r \in Reqs :
        /\ req[r].st = "engine" /\ req[r].proc \in Procs
        /\ mode[req[r].proc] = "main"
        /\ ReturnedFrom(req[r].proc, "commit_buffer")

\* --------------------------------------------------------------------- C5
\* C5: when a pipeline step raises after create_database has returned, the
\* store is absent as startup() exits.
C5_AllOrNothing ==
    [][\A p \in Procs :
          (/\ pc[p] \in StepNames /\ pc'[p] = "crashed"
           /\ ReturnedFrom(p, "create_database")) => ~dbExists']_vars

\* --------------------------------------------------------------------- C6
\* C6: once a pipeline step has raised in a run of main(), that process is
\* dead: it is not serving, never becomes serving, and has handled no request.
C6_BootstrapFatal ==
    /\ [](\A p \in Procs :
            raised[p] =>
                /\ pc[p] = "crashed"
                /\ \A r \in Reqs : req[r].proc # p)
    /\ [][\A p \in Procs :
            (pc[p] = "crashed" /\ runs'[p] = runs[p]) => pc'[p] = "crashed"]_vars

\* a pipeline step raised and the process is dead
C6_Witness ==
    \E p \in Procs :
        /\ raised[p] /\ pc[p] = "crashed"
        /\ log[p][Len(log[p])][1] = "raise"

\* --------------------------------------------------------------------- C7
\* C7: a request whose q is missing, empty or all whitespace gets the 400
\* error and search_emails is not invoked for it; search_emails is only
\* invoked with a non-empty query without leading or trailing whitespace.
C7_EmptyRejected ==
    \A r \in Reqs :
        /\ (req[r].st # "none" /\ Blank(req[r].raw)) =>
              /\ req[r].st = "done"
              /\ req[r].calls = <<>>
              /\ req[r].resp.status = 400
              /\ req[r].resp.keys = {"error"}
        /\ \A i \in 1..Len(req[r].calls) :
              LET a == req[r].calls[i]
              IN /\ a # <<>>
                 /\ a[1] \notin Whitespace
                 /\ a[Len(a)] \notin Whitespace

\* a whitespace-only q was rejected
C7_Witness ==
    \E r \in Reqs :
        /\ req[r].st = "done" /\ req[r].raw.given /\ req[r].raw.val # <<>>
        /\ Blank(req[r].raw)
        /\ req[r].resp.status = 400

\* --------------------------------------------------------------------- C8
\* C8: when search_emails returns both lists for a query, the response is a
\* success carrying the query, the lexical list and the semantic list.
C8_BothResultSets ==
    \A r \in Reqs :
        (/\ req[r].st = "done" /\ req[r].calls # <<>>
         /\ ~req[r].out.raised
         /\ req[r].out.keys = {"lexical", "semantic"}) =>
            /\ req[r].resp.status = 200
            /\ {"query", "lexical", "semantic"} \subseteq req[r].resp.keys
            /\ req[r].resp.query = req[r].calls[1]
            /\ req[r].resp.lexical = req[r].out.lexical
            /\ req[r].resp.semantic = req[r].out.semantic

\* --------------------------------------------------------------------- C9
\* C9: when search_emails raises, or its result lacks the entry the response
\* is built from, the request gets status 500 with the error message, and
\* finishing a request never takes the server out of the serving state.
C9_QueryFailureRecoverable ==
    /\ [](\A r \in Reqs :
            (req[r].st = "done" /\ req[r].calls # <<>>) =>
                /\ req[r].out.raised =>
                      /\ req[r].resp.status = 500
                      /\ req[r].resp.keys = {"error"}
                      /\ req[r].resp.error = req[r].out.err
                /\ (~req[r].out.raised /\ "semantic" \notin req[r].out.keys) =>
                      /\ req[r].resp.status = 500
                      /\ req[r].resp.keys = {"error"}
                      /\ req[r].resp.error = "'semantic'")
    /\ [][\A r \in Reqs :
            (req[r].st = "engine" /\ req'[r].st = "done") =>
                /\ pc[req[r].proc] = "serving"
                /\ pc'[req[r].proc] = "serving"]_vars

\* a request succeeded on a server whose previous request failed with 500
C9_Witness ==
    \E r \in Reqs :
        /\ req[r].st = "done" /\ req[r].prev = 500
        /\ req[r].resp.status = 200
        /\ pc[req[r].proc] = "serving"

\* -------------------------------------------------------------------- C10
\* C10: when search_emails returns only a populated lexical list (no semantic
\* entry), the response is a success carrying that lexical list.
C10_LexicalFallback ==
    \A r \in Reqs :
        (/\ req[r].st = "done" /\ req[r].calls # <<>>
         /\ ~req[r].out.raised
         /\ req[r].out.keys = {"lexical"}
         /\ req[r].out.lexical # <<>>) =>
            /\ req[r].resp.status = 200
            /\ "lexical" \in req[r].resp.keys
            /\ req[r].resp.lexical = req[r].out.lexical

\* -------------------------------------------------------------------- C11
\* C11: search_emails is only ever invoked for a request while the store is
\* present; a request arriving while the store is absent is rejected.
C11_NoSearchWhileUnbuilt ==
    [][\A r \in Reqs :
          (req'[r].st = "engine" /\ req[r].st # "engine") => dbExists]_vars

C13_BufferThenCommit ==
    [][\A p \in Procs :
          (/\ pc[p] \in StepNames /\ inCall[p] /\ ~inCall'[p]
           /\ (dbExists' # dbExists \/ dbContent' # dbContent)) =>
              /\ ReturnedFrom(p, "load_and_buffer")
              /\ ReturnedFrom(p, "compute_threads")]_vars

\* -------------------------------------------------------------------- C14
\* C14: a step of a /search request (rejection, call of search_emails, its
\* return or failure), whatever other requests are in flight, leaves the
\* store's existence and content unchanged and enters no pipeline step.
C14_SearchReadOnly ==
    [][(req' # req /\ runs' = runs) =>
          /\ dbExists' = dbExists
          /\ dbContent' = dbContent
          /\ log' = log
          /\ inCall' = inCall
          /\ pc' = pc]_vars

\* one request has failed while another is still inside search_emails, and
\* the committed store is intact
C14_Witness ==
    \E r1 \in Reqs, r2 \in Reqs :
        /\ r1 # r2 /\ req[r1].proc = req[r2].proc
        /\ req[r1].st = "engine"
        /\ req[r2].st = "done" /\ req[r2].resp.status = 500
        /\ dbExists /\ dbContent \in Threadeds

\* -------------------------------------------------------------------- C15
\* q is v without its leading and trailing whitespace
IsStripOf(q, v) ==
    /\ q # <<>> => (q[1] \notin Whitespace /\ q[Len(q)] \notin Whitespace)
    /\ \E i \in 0..Len(v) :
          /\ i + Len(q) <= Len(v)
          /\ \A k \in 1..i : v[k] \in Whitespace
          /\ \A k \in 1..Len(q) : v[i + k] = q[k]
          /\ \A k \in (i + Len(q) + 1)..Len(v) : v[k] \in Whitespace

\* C15: a request has no response while search_emails runs and one response
\* when done; its status is 400 exactly when the stripped q is empty,
\* otherwise 500 exactly when search_emails raised or returned no semantic
\* entry, otherwise 200 with query = the stripped q handed to search_emails
\* and semantic = the engine's semantic list.
C15_ResponseStatus ==
    \A r \in Reqs :
        /\ req[r].st \in {"none", "engine"} => req[r].resp = NoResponse
        /\ req[r].st = "done" =>
              LET resp == req[r].resp
                  out == req[r].out
                  failed == out.raised \/ "semantic" \notin out.keys
              IN /\ resp.status \in {200, 400, 500}
                 /\ resp.status = 400 <=> Blank(req[r].raw)
                 /\ ~Blank(req[r].raw) =>
                       /\ Len(req[r].calls) = 1
                       /\ IsStripOf(req[r].calls[1], req[r].raw.val)
                       /\ resp.status = 500 <=> failed
                       /\ resp.status = 200 =>
                             /\ resp.keys = {"query", "semantic"}
                             /\ resp.query = req[r].calls[1]
                             /\ resp.semantic = out.semantic

\* a padded query was answered with 200, carrying the stripped query
C15_Witness ==
    \E r \in Reqs :
        /\ req[r].st = "done" /\ req[r].resp.status = 200
        /\ Len(req[r].raw.val) > Len(req[r].resp.query)
        /\ req[r].resp.semantic # <<>>
====
